---- MODULE Spec2Model ----
(***************************************************************************)
(* Model of Scripts/Advanced_Searching_Nearby.py: the adaptive rectangle   *)
(* search of PlacesAPIUtil (search_places, search_accommodations,          *)
(* _get_all_pages_results, subdivide_rectangle, remove_duplicates_by_id)   *)
(* and the SearchArea log.                                                 *)
(*                                                                         *)
(* Numbers.  Python computes with IEEE doubles; here every quantity is a   *)
(* fixed-point integer:                                                    *)
(*   coordinates   micro-degrees   (24.5 degrees = 24500000)               *)
(*   angles        micro-radians                                           *)
(*   distances     metres          (the code's kilometres * 1000)          *)
(* The trigonometric functions are evaluated by their Taylor series in     *)
(* this fixed-point arithmetic, which is exact to about 10 m for the       *)
(* rectangles of the model (sides of at most 2 degrees, latitudes below    *)
(* 60 degrees).                                                            *)
(***************************************************************************)
EXTENDS Integers, Sequences, FiniteSets, TLC

(* ------------------------------------------------------------------ *)
(* Bounds of the model                                                *)
(* ------------------------------------------------------------------ *)

\* Non-default API responses (a failure, a page with places or a token) the
\* API client gives in one search_places session.
EnvBudget == 2

\* Nested search_accommodations frames the interpreter allows before it
\* raises RecursionError (sys.getrecursionlimit() is 1000 in CPython).
RecursionLimit == 3

\* Longest input list of the stand-alone remove_duplicates_by_id runs.
MaxLen == 3

\* Most items of the mapping given to the stand-alone _flatten_dict runs.
MaxItems == 2

\* Largest divisions of the stand-alone subdivide_rectangle runs (the
\* default of search_places is 3).
MaxDivisions == 3

(* ------------------------------------------------------------------ *)
(* Sequence helpers                                                   *)
(* ------------------------------------------------------------------ *)

Reverse(s) == [k \in 1..Len(s) |-> s[Len(s) + 1 - k]]

RECURSIVE Flatten(_)
\* list.extend applied to each element of ss in turn
Flatten(ss) == IF ss = <<>> THEN <<>> ELSE Head(ss) \o Flatten(Tail(ss))

Min(a, b) == IF a <= b THEN a ELSE b

\* a * b / c without leaving 32-bit integers (needs b * c < 2^31)
MulDiv(a, b, c) == (a \div c) * b + ((a % c) * b) \div c

RECURSIVE SqrtFrom(_, _)
\* Newton's iteration for the square root of n > 0, downwards from x
SqrtFrom(n, x) ==
    LET y == (x + n \div x) \div 2
    IN  IF y >= x THEN x ELSE SqrtFrom(n, y)

\* math.sqrt on non-negative integers below 2^31, rounded down
Sqrt(n) == IF n = 0 THEN 0 ELSE SqrtFrom(n, 46340)

(* ------------------------------------------------------------------ *)
(* Geodesic math                                                      *)
(* ------------------------------------------------------------------ *)

\* math.radians: micro-degrees to micro-radians (pi/180 = 355/(113*180) = 71/4068)
Radians(x) == MulDiv(x, 71, 4068)

\* math.sin of a small angle x (micro-radians, 0 <= x < 46340), in millionths
Sin(x) == x - MulDiv((x * x) \div 1000000, x, 6000000)

\* math.cos of an angle x (micro-radians, 0 <= x <= pi/3), in ten-thousandths
Cos(x) ==
    LET y  == x \div 100
        y2 == (y * y) \div 10000
        y4 == (y2 * y2) \div 10000
        y6 == (y4 * y2) \div 10000
        y8 == (y6 * y2) \div 10000
    IN  10000 - y2 \div 2 + y4 \div 24 - y6 \div 720 + y8 \div 40320

\* math.asin of a small value y (millionths), in micro-radians
Asin(y) == y + MulDiv((y * y) \div 1000000, y, 6000000)

\* Earth radius in kilometres
R == 6371

\* haversine_distance, in metres
haversine_distance(lat1, lon1, lat2, lon2) ==
    LET rlat1 == Radians(lat1)
        rlon1 == Radians(lon1)
        rlat2 == Radians(lat2)
        rlon2 == Radians(lon2)
        dlat  == rlat2 - rlat1
        dlon  == rlon2 - rlon1
        slat  == Sin(dlat \div 2)
        slon  == Sin(dlon \div 2)
        cc    == (Cos(rlat1) * Cos(rlat2)) \div 10000
        a     == slat * slat + MulDiv(slon * slon, cc, 10000)
        c     == 2 * Asin(Sqrt(a))
    IN  MulDiv(c, R, 1000)

\* get_rectangle_center_and_radius: <<center_lat, center_lon, approx_radius>>
get_rectangle_center_and_radius(sw_lat, sw_lon, ne_lat, ne_lon) ==
    LET center_lat == (sw_lat + ne_lat) \div 2
        center_lon == (sw_lon + ne_lon) \div 2
        diagonal   == haversine_distance(sw_lat, sw_lon, ne_lat, ne_lon)
    IN  <<center_lat, center_lon, diagonal \div 2>>

\* Variant: the grid is filled column by column
subdivide_rectangle_by_columns(sw_lat, sw_lon, ne_lat, ne_lon, divisions) ==
    LET lat_step == (ne_lat - sw_lat) \div divisions
        lon_step == (ne_lon - sw_lon) \div divisions
    IN  [k \in 1..(divisions * divisions) |->
            LET j == (k - 1) \div divisions
                i == (k - 1) % divisions
            IN  << sw_lat + i * lat_step,
                   sw_lon + j * lon_step,
                   sw_lat + (i + 1) * lat_step,
                   sw_lon + (j + 1) * lon_step >>]

\* subdivide_rectangle: the divisions * divisions cells, row-major.  The
\* division that gives the steps rounds (here: down to a micro-degree).
subdivide_rectangle(sw_lat, sw_lon, ne_lat, ne_lon, divisions) ==
    LET lat_step == (ne_lat - sw_lat) \div divisions
        lon_step == (ne_lon - sw_lon) \div divisions
    IN  [k \in 1..(divisions * divisions) |->
            LET i == (k - 1) \div divisions
                j == (k - 1) % divisions
            IN  << sw_lat + i * lat_step,
                   sw_lon + j * lon_step,
                   sw_lat + (i + 1) * lat_step,
                   sw_lon + (j + 1) * lon_step >>]

\* approx_radius of search_accommodations: half of sqrt(width^2 + height^2),
\* in metres (the squares are taken in decametres to stay within 32 bits)
approx_radius(rect) ==
    LET width  == haversine_distance(rect[1], rect[2], rect[1], rect[4])
        height == haversine_distance(rect[1], rect[2], rect[3], rect[2])
        approx_diagonal ==
            10 * Sqrt((width \div 10) * (width \div 10) + (height \div 10) * (height \div 10))
    IN  approx_diagonal \div 2

(* ------------------------------------------------------------------ *)
(* Deduplication                                                      *)
(* ------------------------------------------------------------------ *)

\* {x['id']: x for x in s}, as the sequence of the dict's values: a dict
\* keeps its keys in the order of their first insertion, and a later
\* assignment to a key replaces the value in the key's slot
DictValues(s) ==
    LET Inserts(k) == \A j \in 1..(k - 1) : s[j].id # s[k].id
        LastOf(k)  == CHOOSE j \in k..Len(s) :
                          /\ s[j].id = s[k].id
                          /\ \A m \in (j + 1)..Len(s) : s[m].id # s[k].id
        slots      == SelectSeq([k \in 1..Len(s) |-> k], Inserts)
    IN  [n \in 1..Len(slots) |-> s[LastOf(slots[n])]]

\* Variant: the dict is built from the list as it is, with no reversal
remove_duplicates_unreversed(all_result_list) == DictValues(all_result_list)

\* Variant: the list is returned with its duplicates
remove_duplicates_skipped(all_result_list) == all_result_list

\* remove_duplicates_by_id
remove_duplicates_by_id(all_result_list) ==
    Reverse(DictValues(Reverse(all_result_list)))

(* ------------------------------------------------------------------ *)
(* Flattening                                                         *)
(* ------------------------------------------------------------------ *)

\* A str is the sequence of its characters, a dict the sequence of its
\* items <<key, value>> in insertion order, and a value is tagged with its
\* type: an int, a str, a dict or a list of ints.
IntValue(n) == [t |-> "int", n |-> n, s |-> <<>>, d |-> <<>>, l |-> <<>>]

StrValue(s) == [t |-> "str", n |-> 0, s |-> s, d |-> <<>>, l |-> <<>>]

DictValue(d) == [t |-> "dict", n |-> 0, s |-> <<>>, d |-> d, l |-> <<>>]

ListValue(l) == [t |-> "list", n |-> 0, s |-> <<>>, d |-> <<>>, l |-> l]

\* dict(items): a key keeps the slot of its first item and takes the value
\* of its last
DictOfItems(items) ==
    LET Inserts(k) == \A j \in 1..(k - 1) : items[j][1] # items[k][1]
        LastOf(k)  == CHOOSE j \in k..Len(items) :
                          /\ items[j][1] = items[k][1]
                          /\ \A m \in (j + 1)..Len(items) : items[m][1] # items[k][1]
        slots      == SelectSeq([k \in 1..Len(items) |-> k], Inserts)
    IN  [n \in 1..Len(slots) |->
            << items[slots[n]][1], items[LastOf(slots[n])][2] >>]

\* str(n) of an int of one digit
StrOfInt(n) == << <<"0", "1", "2", "3", "4", "5", "6", "7", "8", "9">>[n + 1] >>

RECURSIVE JoinInts(_)
\* ', '.join(map(str, v))
JoinInts(v) ==
    IF v = <<>> THEN <<>>
    ELSE IF Len(v) = 1 THEN StrOfInt(v[1])
    ELSE StrOfInt(v[1]) \o <<",", " ">> \o JoinInts(Tail(v))

RECURSIVE FlattenItems(_, _, _)
\* The list items of _flatten_dict after its for loop.  (A list whose last
\* element is a dict goes through json.dumps; the lists here hold ints.)
FlattenItems(d, parent_key, sep) ==
    IF d = <<>> THEN <<>>
    ELSE LET k == d[1][1]
             v == d[1][2]
             new_key == IF parent_key # <<>> THEN parent_key \o sep \o k ELSE k
         IN  (IF v.t = "dict"
                  THEN DictOfItems(FlattenItems(v.d, new_key, sep))
              ELSE IF v.t = "list"
                  THEN << <<new_key, StrValue(JoinInts(v.l))>> >>
              ELSE << <<new_key, v>> >>)
             \o FlattenItems(Tail(d), parent_key, sep)

\* _flatten_dict
flatten_dict(d, parent_key, sep) == DictOfItems(FlattenItems(d, parent_key, sep))

(* ------------------------------------------------------------------ *)
(* State                                                              *)
(* ------------------------------------------------------------------ *)

VARIABLES
    pc,          \* where the program stands: "idle", "loop", "request",
                 \* "sleep", "next_request", "leaf", "raised"
    args,        \* <<rectangle, divisions>> of the search_places call
    stack,       \* call stack: the search_places frame, then one frame per
                 \* active search_accommodations call
    page,        \* locals of the running _get_all_pages_results call
    search_area, \* self.search_area.rectangles
    returned,    \* value returned by the search_places call, once it ends
    exported,    \* what save_to_csv and create_map were given by that call
    error,       \* exception that ended the program, "none" while it runs
    reused,      \* "new" object, in its "first" search_places call, or called "again"
    budget,      \* non-default responses the API client has left
    queries,     \* history: leaf queries issued in this session
    answers,     \* history: what each finished leaf query returned
    reqs,        \* history: HTTP requests of the running leaf query
    ret,         \* history: the last search_accommodations return
    client,      \* the API client: whether it is deterministic, and if so
                 \* the responses it has given so far, by request
    first,       \* history: what the first search_places call on a
                 \* deterministic client was given and left behind
    dd_in,       \* stand-alone remove_duplicates_by_id run: its argument
    dd_out,      \* stand-alone remove_duplicates_by_id run: its result
    sd_in,       \* stand-alone subdivide_rectangle run: its arguments
    sd_out,      \* stand-alone subdivide_rectangle run: its result
    fd_in,       \* stand-alone _flatten_dict run: its argument
    fd_out       \* stand-alone _flatten_dict run: its results

vars == << pc, args, stack, page, search_area, returned, exported, error, reused,
           budget, queries, answers, reqs, ret, client, first,
           dd_in, dd_out, sd_in, sd_out, fd_in, fd_out >>

\* The variables of the stand-alone runs of the pure functions
standalone == << dd_in, dd_out, sd_in, sd_out, fd_in, fd_out >>

\* The variables of the search
session == << pc, args, stack, page, search_area, returned, exported, error, reused,
              budget, queries, answers, reqs, ret, client, first >>

\* max_allowed_radius_km = 49, in metres
max_allowed_radius_km == 49000

\* max_results_per_area
max_results_per_area == 20

\* maxResultCount of the request payload: places in one page
maxResultCount == 20

\* range(2): continuation pages fetched at most
MorePages == 2

\* time.sleep(2)
SleepUnits == 2

\* The rectangles (micro-degrees) and divisions search_places is called with:
\* a 1 x 1 degree rectangle (approx. radius 75 km) whole and as a 2 x 2 grid,
\* and a 0.64 x 0.64 degree rectangle (approx. radius 48 km) whole.
Inputs ==
    { << <<24000000, 54000000, 25000000, 55000000>>, 1 >>,
      << <<24000000, 54000000, 25000000, 55000000>>, 2 >>,
      << <<24000000, 54000000, 24640000, 54640000>>, 1 >> }

\* Places in one page of a response
PageCounts == {0, 1, 19, 20}

NoToken == "none"

\* nextPageToken of the p-th response of a query
TokenOf(p) == IF p = 1 THEN "t1" ELSE IF p = 2 THEN "t2" ELSE "t3"

\* The n places of the p-th page of the q-th leaf query of a session: every
\* query sees the same place ids, so the leaves' results overlap; v tells
\* the copies apart.
Places(p, n, q) == [k \in 1..n |-> [id |-> (p - 1) * maxResultCount + k, v |-> q]]

\* A page of one place whose record has no id
Malformed(q) == << [v |-> q] >>

\* The responses the API client may give to the p-th request of the q-th
\* query: {places: [...], nextPageToken?: ...}
Responses(p, q) ==
    { [places |-> Places(p, n, q), nextPageToken |-> t] :
        n \in PageCounts, t \in {NoToken, TokenOf(p)} }
    \cup { [places |-> Malformed(q), nextPageToken |-> t] :
              t \in {NoToken, TokenOf(p)} }

\* d['id'] succeeds
HasId(d) == "id" \in DOMAIN d

\* The response that costs no budget: no places, no token
IsDefault(data) == data.places = <<>> /\ data.nextPageToken = NoToken

NoPage == [lat |-> 0, lon |-> 0, radius |-> 0, pageToken |-> NoToken,
           results |-> <<>>, next_page_token |-> NoToken, fetched |-> 0,
           slept |-> 0, failed |-> FALSE]

NoRet == [fn |-> "none", rect |-> <<>>, approx_radius |-> 0, own |-> <<>>, rets |-> <<>>,
          value |-> <<>>, base |-> 0, upto |-> 0]

NoExport == [csv_saved |-> FALSE, csv |-> <<>>, map_saved |-> FALSE, map |-> <<>>]

\* A frame: the function's branch, its rectangle and its locals (history:
\* rets, what each call made by the loop returned, and base, the length of
\* the log when the call was made)
Frame(fn, rect, radius, subs, acc, own) ==
    [fn |-> fn, rect |-> rect, approx_radius |-> radius, subs |-> subs,
     i |-> 1, acc |-> acc, own |-> own, rets |-> <<>>, base |-> Len(search_area)]

Top == stack[Len(stack)]

Pop == SubSeq(stack, 1, Len(stack) - 1)

NoFirst == [done |-> FALSE, args |-> << <<>>, 0 >>, returned |-> <<>>, rectangles |-> <<>>]

\* What the call before the one now starting was given and left behind,
\* kept for the second call on a deterministic client
Remembered ==
    IF client.deterministic /\ reused = "first"
    THEN [done |-> TRUE, args |-> args, returned |-> returned, rectangles |-> search_area]
    ELSE first

\* PlacesAPIUtil.__init__
InitObject ==
    /\ pc = "idle"
    /\ args = << <<>>, 0 >>
    /\ stack = <<>>
    /\ page = NoPage
    /\ search_area = <<>>
    /\ returned = <<>>
    /\ exported = NoExport
    /\ error = "none"
    /\ reused = "new"
    /\ budget = 0
    /\ queries = <<>>
    /\ answers = <<>>
    /\ reqs = <<>>
    /\ ret = NoRet
    /\ first = NoFirst

\* No stand-alone run
NoStandalone ==
    /\ dd_in = <<>>
    /\ dd_out = [done |-> FALSE, value |-> <<>>]
    /\ sd_in = << <<0, 0, 0, 0>>, 0 >>
    /\ sd_out = [done |-> FALSE, value |-> <<>>]
    /\ fd_in = <<>>
    /\ fd_out = [done |-> FALSE, once |-> <<>>, twice |-> <<>>]

\* An API client whose responses are limited by the budget only
AnyClient == [deterministic |-> FALSE, table |-> {}]

Init ==
    /\ InitObject
    /\ client = AnyClient
    /\ NoStandalone

(* ------------------------------------------------------------------ *)
(* search_places                                                      *)
(* ------------------------------------------------------------------ *)

\* Variant: search_places without the reset of self.search_area
SearchPlacesKeepingLog(rect, divisions) ==
    /\ pc = "idle"
    /\ args' = <<rect, divisions>>
    /\ stack' = << Frame("search_places", rect, 0,
                         subdivide_rectangle(rect[1], rect[2], rect[3], rect[4], divisions),
                         <<>>, <<>>) >>
    /\ pc' = "loop"
    /\ reused' = IF reused = "new" THEN "first" ELSE "again"
    /\ budget' = EnvBudget
    /\ queries' = <<>>
    /\ answers' = <<>>
    /\ reqs' = <<>>
    /\ ret' = NoRet
    /\ page' = NoPage
    /\ returned' = <<>>
    /\ exported' = NoExport
    /\ first' = Remembered
    /\ UNCHANGED << search_area, error, client, standalone >>

\* search_places up to its for loop: the initial grid, an empty result
\* list and a fresh SearchArea.  (included_types is passed through to the
\* payload unchanged and rect_label is only printed; neither is modelled.)
SearchPlaces(rect, divisions) ==
    /\ pc = "idle"
    /\ args' = <<rect, divisions>>
    /\ stack' = << [Frame("search_places", rect, 0,
                          subdivide_rectangle(rect[1], rect[2], rect[3], rect[4], divisions),
                          <<>>, <<>>) EXCEPT !.base = 0] >>
    /\ search_area' = <<>>
    /\ pc' = "loop"
    /\ reused' = IF reused = "new" THEN "first" ELSE "again"
    /\ budget' = EnvBudget
    /\ queries' = <<>>
    /\ answers' = <<>>
    /\ reqs' = <<>>
    /\ ret' = NoRet
    /\ page' = NoPage
    /\ returned' = <<>>
    /\ exported' = NoExport
    /\ first' = Remembered
    /\ UNCHANGED << error, client, standalone >>

\* save_to_csv: nothing is written for an empty list
save_to_csv(data, exp) ==
    IF data = <<>> THEN exp ELSE [exp EXCEPT !.csv_saved = TRUE, !.csv = data]

\* create_map: one overlay rectangle per entry of the log
create_map(exp) == [exp EXCEPT !.map_saved = TRUE, !.map = search_area]

\* Variant: records without id are dropped before the deduplication
FinishSearchWithoutMalformed ==
    /\ pc = "loop"
    /\ Top.fn = "search_places"
    /\ Top.i > Len(Top.subs)
    /\ \E k \in 1..Len(Top.acc) : ~ HasId(Top.acc[k])
    /\ LET all_results == remove_duplicates_by_id(SelectSeq(Top.acc, HasId))
       IN  /\ returned' = all_results
           /\ exported' = create_map(save_to_csv(all_results, NoExport))
    /\ stack' = <<>>
    /\ pc' = "idle"
    /\ UNCHANGED << args, page, search_area, error, reused, budget, queries,
                    answers, reqs, ret, client, first, standalone >>

\* search_places after its for loop, a record of all_results has no id:
\* d['id'] in remove_duplicates_by_id raises KeyError, which nothing
\* catches; the exports and the return are not reached
RaiseKeyError ==
    /\ pc = "loop"
    /\ Top.fn = "search_places"
    /\ Top.i > Len(Top.subs)
    /\ \E k \in 1..Len(Top.acc) : ~ HasId(Top.acc[k])
    /\ pc' = "raised"
    /\ error' = "KeyError"
    /\ UNCHANGED << args, stack, page, search_area, returned, exported, reused,
                    budget, queries, answers, reqs, ret, client, first, standalone >>

\* search_places after its for loop: deduplicate, export, return
FinishSearch ==
    /\ pc = "loop"
    /\ Top.fn = "search_places"
    /\ Top.i > Len(Top.subs)
    /\ \A k \in 1..Len(Top.acc) : HasId(Top.acc[k])
    /\ LET all_results == remove_duplicates_by_id(Top.acc)
       IN  /\ returned' = all_results
           /\ exported' = create_map(save_to_csv(all_results, NoExport))
    /\ stack' = <<>>
    /\ pc' = "idle"
    /\ UNCHANGED << args, page, search_area, error, reused, budget, queries,
                    answers, reqs, ret, client, first, standalone >>

(* ------------------------------------------------------------------ *)
(* search_accommodations                                              *)
(* ------------------------------------------------------------------ *)

\* The rectangle the loop of the top frame hands to search_accommodations
NextRect == Top.subs[Top.i]

CanCall ==
    /\ pc = "loop"
    /\ Top.i <= Len(Top.subs)

\* search_accommodations frames on the stack
Depth == Len(stack) - 1

\* The call that would exceed the interpreter's recursion limit: the
\* RecursionError is caught nowhere and ends the program
RaiseRecursionError ==
    /\ CanCall
    /\ Depth >= RecursionLimit
    /\ pc' = "raised"
    /\ error' = "RecursionError"
    /\ UNCHANGED << args, stack, page, search_area, returned, exported, reused,
                    budget, queries, answers, reqs, ret, client, first, standalone >>

\* Variant: the radius branch "splits" 1 x 1, into the rectangle itself
SubdivideForRadiusInOne ==
    /\ CanCall
    /\ Depth < RecursionLimit
    /\ LET r == approx_radius(NextRect)
       IN  /\ r > max_allowed_radius_km
           /\ stack' = Append(stack,
                  Frame("radius", NextRect, r,
                        subdivide_rectangle(NextRect[1], NextRect[2],
                                            NextRect[3], NextRect[4], 1),
                        <<>>, <<>>))
    /\ UNCHANGED << args, pc, page, search_area, returned, exported, error, reused,
                    budget, queries, answers, reqs, ret, client, first, standalone >>

\* search_accommodations, radius branch: split 2 x 2 and loop over the cells
SubdivideForRadius ==
    /\ CanCall
    /\ Depth < RecursionLimit
    /\ LET r == approx_radius(NextRect)
       IN  /\ r > max_allowed_radius_km
           /\ stack' = Append(stack,
                  Frame("radius", NextRect, r,
                        subdivide_rectangle(NextRect[1], NextRect[2],
                                            NextRect[3], NextRect[4], 2),
                        <<>>, <<>>))
    /\ UNCHANGED << args, pc, page, search_area, returned, exported, error, reused,
                    budget, queries, answers, reqs, ret, client, first, standalone >>

\* Variant: the padded radius without the clamp
search_radius_unclamped(radius) == (radius * 11) \div 10

\* search_radius = min(approx_radius * 1.1 * 1000, max_allowed_radius_km * 1000)
search_radius(radius) == Min((radius * 11) \div 10, max_allowed_radius_km)

\* Variant: the query is made whatever the radius
StartLeafQueryAnyRadius ==
    /\ CanCall
    /\ Depth < RecursionLimit
    /\ LET c == get_rectangle_center_and_radius(NextRect[1], NextRect[2],
                                                NextRect[3], NextRect[4])
           r == approx_radius(NextRect)
       IN  /\ page' = [NoPage EXCEPT !.lat = c[1], !.lon = c[2],
                                     !.radius = search_radius(r)]
           /\ queries' = Append(queries,
                  [rect |-> NextRect, approx_radius |-> r, lat |-> c[1],
                   lon |-> c[2], radius |-> search_radius(r)])
           /\ stack' = Append(stack, Frame("leaf", NextRect, r, <<>>, <<>>, <<>>))
    /\ pc' = "request"
    /\ reqs' = <<>>
    /\ UNCHANGED << args, search_area, returned, exported, error, reused, budget,
                    answers, ret, client, first, standalone >>

\* search_accommodations, else branch up to the call of
\* _get_all_pages_results, and that function up to its first request
StartLeafQuery ==
    /\ CanCall
    /\ Depth < RecursionLimit
    /\ LET c == get_rectangle_center_and_radius(NextRect[1], NextRect[2],
                                                NextRect[3], NextRect[4])
           r == approx_radius(NextRect)
       IN  /\ ~ (r > max_allowed_radius_km)
           /\ page' = [NoPage EXCEPT !.lat = c[1], !.lon = c[2],
                                     !.radius = search_radius(r)]
           /\ queries' = Append(queries,
                  [rect |-> NextRect, approx_radius |-> r, lat |-> c[1],
                   lon |-> c[2], radius |-> search_radius(r)])
           /\ stack' = Append(stack, Frame("leaf", NextRect, r, <<>>, <<>>, <<>>))
    /\ pc' = "request"
    /\ reqs' = <<>>
    /\ UNCHANGED << args, search_area, returned, exported, error, reused, budget,
                    answers, ret, client, first, standalone >>

\* Variant: the caller puts the returned list in front of its own
ReturnToInFront(fn, own, value, logged) ==
    LET caller == stack[Len(stack) - 1]
        done   == [caller EXCEPT !.acc  = value \o caller.acc,
                                 !.rets = Append(caller.rets,
                                              [rect |-> Top.rect, value |-> value]),
                                 !.i    = caller.i + 1]
    IN  /\ stack' = Append(SubSeq(stack, 1, Len(stack) - 2), done)
        /\ ret' = [fn |-> fn, rect |-> Top.rect,
                   approx_radius |-> Top.approx_radius, own |-> own,
                   rets |-> Top.rets, value |-> value,
                   base |-> Top.base, upto |-> logged]
        /\ pc' = "loop"

\* A search_accommodations call returns value to the loop that made it,
\* which extends its list with it (logged: the length of the log then)
ReturnTo(fn, own, value, logged) ==
    LET caller == stack[Len(stack) - 1]
        done   == [caller EXCEPT !.acc  = caller.acc \o value,
                                 !.rets = Append(caller.rets,
                                              [rect |-> Top.rect, value |-> value]),
                                 !.i    = caller.i + 1]
    IN  /\ stack' = Append(SubSeq(stack, 1, Len(stack) - 2), done)
        /\ ret' = [fn |-> fn, rect |-> Top.rect,
                   approx_radius |-> Top.approx_radius, own |-> own,
                   rets |-> Top.rets, value |-> value,
                   base |-> Top.base, upto |-> logged]
        /\ pc' = "loop"

\* The end of the for loop of the radius branch or of the density branch:
\* return all_sub_results
ReturnSubResults ==
    /\ pc = "loop"
    /\ Top.fn \in {"radius", "density"}
    /\ Top.i > Len(Top.subs)
    /\ ReturnTo(Top.fn, Top.own, Top.acc, Len(search_area))
    /\ UNCHANGED << args, page, search_area, returned, exported, error, reused,
                    budget, queries, answers, reqs, client, first, standalone >>

\* Variant: the entry is put in front of the log
add_rectangle_in_front(coords, results_count, was_subdivided) ==
    << <<coords, results_count, was_subdivided>> >> \o search_area

\* self.search_area.add_rectangle
add_rectangle(coords, results_count, was_subdivided) ==
    Append(search_area, <<coords, results_count, was_subdivided>>)

\* What the finished _get_all_pages_results call returned, whether a request
\* of it failed and, if so, which
Answer == [results |-> page.results, failed |-> page.failed, requests |-> IF page.failed THEN Len(reqs) ELSE 0]

\* Variant: the density branch starts from an empty list, not list(results)
SubdivideForDensityDroppingOwn ==
    /\ pc = "leaf"
    /\ search_area' = Append(search_area, <<Top.rect, Len(page.results), FALSE>>)
    /\ answers' = Append(answers,
           [results |-> page.results, failed |-> page.failed,
            requests |-> IF page.failed THEN Len(reqs) ELSE 0])
    /\ Len(page.results) = max_results_per_area
    /\ stack' = Append(Pop,
                  Frame("density", Top.rect, Top.approx_radius,
                        subdivide_rectangle(Top.rect[1], Top.rect[2],
                                            Top.rect[3], Top.rect[4], 2),
                        <<>>, page.results))
    /\ pc' = "loop"
    /\ page' = NoPage
    /\ reqs' = <<>>
    /\ UNCHANGED << args, returned, exported, error, reused, budget, queries,
                    ret, client, first, standalone >>

\* Variant: the density branch is taken for 20 results or more
SubdivideForDensityFromTwenty ==
    /\ pc = "leaf"
    /\ search_area' = add_rectangle(Top.rect, Len(page.results), FALSE)
    /\ answers' = Append(answers, Answer)
    /\ Len(page.results) >= max_results_per_area
    /\ stack' = Append(Pop,
                  Frame("density", Top.rect, Top.approx_radius,
                        subdivide_rectangle(Top.rect[1], Top.rect[2],
                                            Top.rect[3], Top.rect[4], 2),
                        page.results, page.results))
    /\ pc' = "loop"
    /\ page' = NoPage
    /\ reqs' = <<>>
    /\ UNCHANGED << args, returned, exported, error, reused, budget, queries,
                    ret, client, first, standalone >>

\* Variant: the entry of a leaf that is subdivided says so
SubdivideForDensityMarked ==
    /\ pc = "leaf"
    /\ search_area' = add_rectangle(Top.rect, Len(page.results), TRUE)
    /\ answers' = Append(answers, Answer)
    /\ Len(page.results) = max_results_per_area
    /\ stack' = Append(Pop,
                  Frame("density", Top.rect, Top.approx_radius,
                        subdivide_rectangle(Top.rect[1], Top.rect[2],
                                            Top.rect[3], Top.rect[4], 2),
                        page.results, page.results))
    /\ pc' = "loop"
    /\ page' = NoPage
    /\ reqs' = <<>>
    /\ UNCHANGED << args, returned, exported, error, reused, budget, queries,
                    ret, client, first, standalone >>

\* search_accommodations after the query, density branch: log the leaf,
\* split 2 x 2 and loop over the cells, starting from the leaf's results
SubdivideForDensity ==
    /\ pc = "leaf"
    /\ search_area' = add_rectangle(Top.rect, Len(page.results), FALSE)
    /\ answers' = Append(answers, Answer)
    /\ Len(page.results) = max_results_per_area
    /\ stack' = Append(Pop,
                  Frame("density", Top.rect, Top.approx_radius,
                        subdivide_rectangle(Top.rect[1], Top.rect[2],
                                            Top.rect[3], Top.rect[4], 2),
                        page.results, page.results))
    /\ pc' = "loop"
    /\ page' = NoPage
    /\ reqs' = <<>>
    /\ UNCHANGED << args, returned, exported, error, reused, budget, queries,
                    ret, client, first, standalone >>

\* search_accommodations after the query, no subdivision: log the leaf and
\* return its results
ReturnLeaf ==
    /\ pc = "leaf"
    /\ search_area' = add_rectangle(Top.rect, Len(page.results), FALSE)
    /\ answers' = Append(answers, Answer)
    /\ Len(page.results) # max_results_per_area
    /\ ReturnTo("leaf", page.results, page.results, Len(search_area) + 1)
    /\ page' = NoPage
    /\ reqs' = <<>>
    /\ UNCHANGED << args, returned, exported, error, reused, budget, queries,
                    client, first, standalone >>

(* ------------------------------------------------------------------ *)
(* _get_all_pages_results                                             *)
(* ------------------------------------------------------------------ *)

\* The payload of the request about to be sent, the delay before it, and
\* the nextPageToken of its response ("error" for a failed request)
Request(answer) ==
    [lat |-> page.lat, lon |-> page.lon, radius |-> page.radius,
     pageToken |-> page.pageToken, slept |-> page.slept, answer |-> answer]

\* What a response costs the API client's budget
Cost(data) == IF IsDefault(data) THEN 0 ELSE 1

\* The response without places and without token
NoData == [places |-> <<>>, nextPageToken |-> NoToken]

\* What tells one request from another: the circle and the page token
Key == << page.lat, page.lon, page.radius, page.pageToken >>

\* A deterministic client has seen the request about to be sent
Known == client.deterministic /\ \E e \in client.table : e.key = Key

\* ... and this is what it answered
Entry == CHOOSE e \in client.table : e.key = Key

\* Places in one page of a response of a deterministic client: its pages
\* are full or empty, and its records have their id
DetPageCounts == {0, maxResultCount}

\* The API client may fail this request (failed) or answer it with data: a
\* deterministic client repeats itself; an answer given for the first time
\* is limited by the budget (a failure costs one unit)
Offers(failed, data) ==
    IF Known THEN /\ Entry.failed = failed
                  /\ Entry.data = data
    ELSE IF failed THEN budget > 0
    ELSE /\ Cost(data) <= budget
         /\ client.deterministic =>
               /\ Len(data.places) \in DetPageCounts
               /\ \A k \in 1..Len(data.places) : HasId(data.places[k])

\* What the answer takes from the budget
Price(failed, data) == IF Known THEN 0 ELSE IF failed THEN 1 ELSE Cost(data)

\* A deterministic client after it has answered
Remember(failed, data) ==
    IF client.deterministic /\ ~ Known
    THEN [client EXCEPT !.table = @ \cup {[key |-> Key, failed |-> failed, data |-> data]}]
    ELSE client

\* The first request and its response: results.extend(data.get('places', []))
\* and the first test of the for loop
FirstRequest ==
    /\ pc = "request"
    /\ \E data \in Responses(1, Len(queries)) :
          /\ Offers(FALSE, data)
          /\ budget' = budget - Price(FALSE, data)
          /\ client' = Remember(FALSE, data)
          /\ page' = [page EXCEPT !.results = page.results \o data.places,
                                  !.next_page_token = data.nextPageToken]
          /\ pc' = IF data.nextPageToken = NoToken THEN "leaf" ELSE "sleep"
          /\ reqs' = Append(reqs, Request(data.nextPageToken))
    /\ UNCHANGED << args, stack, search_area, returned, exported, error, reused,
                    queries, answers, ret, first, standalone >>

\* Variant: the continuation request is sent without the delay
SleepSkipped ==
    /\ pc = "sleep"
    /\ page' = [page EXCEPT !.pageToken = page.next_page_token]
    /\ pc' = "next_request"
    /\ UNCHANGED << args, stack, search_area, returned, exported, error, reused,
                    budget, queries, answers, reqs, ret, client, first, standalone >>

\* time.sleep(2) and payload["pageToken"] = next_page_token
Sleep ==
    /\ pc = "sleep"
    /\ page' = [page EXCEPT !.slept = SleepUnits,
                            !.pageToken = page.next_page_token]
    /\ pc' = "next_request"
    /\ UNCHANGED << args, stack, search_area, returned, exported, error, reused,
                    budget, queries, answers, reqs, ret, client, first, standalone >>

\* A continuation request and its response, then the next turn of the loop:
\* it ends after range(2) turns or at a response without a token
NextRequest ==
    /\ pc = "next_request"
    /\ \E data \in Responses(page.fetched + 2, Len(queries)) :
          /\ Offers(FALSE, data)
          /\ budget' = budget - Price(FALSE, data)
          /\ client' = Remember(FALSE, data)
          /\ page' = [page EXCEPT !.results = page.results \o data.places,
                                  !.next_page_token = data.nextPageToken,
                                  !.fetched = page.fetched + 1,
                                  !.slept = 0]
          /\ pc' = IF page.fetched + 1 < MorePages /\ data.nextPageToken # NoToken
                   THEN "sleep" ELSE "leaf"
          /\ reqs' = Append(reqs, Request(data.nextPageToken))
    /\ UNCHANGED << args, stack, search_area, returned, exported, error, reused,
                    queries, answers, ret, first, standalone >>

\* Variant: no except clause, the RequestException ends the program
RequestFailsUncaught ==
    /\ pc \in {"request", "next_request"}
    /\ Offers(TRUE, NoData)
    /\ budget' = budget - Price(TRUE, NoData)
    /\ client' = Remember(TRUE, NoData)
    /\ page' = [page EXCEPT !.failed = TRUE]
    /\ reqs' = Append(reqs,
           [lat |-> page.lat, lon |-> page.lon, radius |-> page.radius,
            pageToken |-> page.pageToken, slept |-> page.slept, answer |-> "error"])
    /\ pc' = "raised"
    /\ error' = "RequestException"
    /\ UNCHANGED << args, stack, search_area, returned, exported, reused,
                    queries, answers, ret, first, standalone >>

\* requests.post or raise_for_status raises RequestException, at the first
\* request or at a continuation request: the except clause returns []
RequestFails ==
    /\ pc \in {"request", "next_request"}
    /\ Offers(TRUE, NoData)
    /\ budget' = budget - Price(TRUE, NoData)
    /\ client' = Remember(TRUE, NoData)
    /\ page' = [page EXCEPT !.results = <<>>, !.failed = TRUE]
    /\ reqs' = Append(reqs, Request("error"))
    /\ pc' = "leaf"
    /\ UNCHANGED << args, stack, search_area, returned, exported, error, reused,
                    queries, answers, ret, first, standalone >>

(* ------------------------------------------------------------------ *)
(* Specifications                                                     *)
(* ------------------------------------------------------------------ *)

\* The arguments of the calls made on an object that was used before: the
\* 0.64 x 0.64 degree rectangle
InputsAgain == { << <<24000000, 54000000, 24640000, 54640000>>, 1 >> }

\* A call of search_places, on a new object or on one used before
CallSearchPlaces ==
    \E in \in Inputs :
        /\ reused = "new" \/ in \in InputsAgain
        /\ SearchPlaces(in[1], in[2])

Next ==
    \/ CallSearchPlaces
    \/ RaiseRecursionError
    \/ SubdivideForRadius
    \/ StartLeafQuery
    \/ FirstRequest
    \/ Sleep
    \/ NextRequest
    \/ RequestFails
    \/ SubdivideForDensity
    \/ ReturnLeaf
    \/ ReturnSubResults
    \/ RaiseKeyError
    \/ FinishSearch

Spec == Init /\ [][Next]_vars

\* An API client whose response depends on the request only
DeterministicClient == [deterministic |-> TRUE, table |-> {}]

InitDet ==
    /\ InitObject
    /\ client = DeterministicClient
    /\ NoStandalone

\* The arguments of the calls on the deterministic client: the 1 x 1 degree
\* rectangle, whole
InputsTwice == { << <<24000000, 54000000, 25000000, 55000000>>, 1 >> }

\* Two search_places calls with the same arguments on one object
SearchPlacesTwice ==
    \E in \in InputsTwice :
        /\ reused = "new" \/ (reused = "first" /\ in = args)
        /\ SearchPlaces(in[1], in[2])

NextDet ==
    \/ SearchPlacesTwice
    \/ RaiseRecursionError
    \/ SubdivideForRadius
    \/ StartLeafQuery
    \/ FirstRequest
    \/ Sleep
    \/ NextRequest
    \/ RequestFails
    \/ SubdivideForDensity
    \/ ReturnLeaf
    \/ ReturnSubResults
    \/ FinishSearch

SpecDet == InitDet /\ [][NextDet]_vars

\* Stand-alone runs of remove_duplicates_by_id on lists of records
Ids == {"A", "B", "C"}

Versions == 1..3

Records == [id : Ids, v : Versions]

BoundedSeq(S, n) == UNION { [1..m -> S] : m \in 0..n }

InitDedup ==
    /\ InitObject
    /\ client = AnyClient
    /\ dd_in \in BoundedSeq(Records, MaxLen)
    /\ dd_out = [done |-> FALSE, value |-> <<>>]
    /\ sd_in = << <<0, 0, 0, 0>>, 0 >>
    /\ sd_out = [done |-> FALSE, value |-> <<>>]
    /\ fd_in = <<>>
    /\ fd_out = [done |-> FALSE, once |-> <<>>, twice |-> <<>>]

\* One call of remove_duplicates_by_id
Dedup ==
    /\ ~ dd_out.done
    /\ dd_out' = [done |-> TRUE, value |-> remove_duplicates_by_id(dd_in)]
    /\ UNCHANGED << session, dd_in, sd_in, sd_out, fd_in, fd_out >>

NextDedup == Dedup

SpecDedup == InitDedup /\ [][NextDedup]_vars

\* Stand-alone runs of subdivide_rectangle
Corners == { <<24000000, 54000000>>, <<24100000, 51500000>>, <<-1170000, -300000>> }

Sides == { 1000000, 640000, 1924700 }

RectanglesToSplit ==
    { << c[1], c[2], c[1] + h, c[2] + w >> : c \in Corners, h \in Sides, w \in Sides }

InitSubdivide ==
    /\ InitObject
    /\ client = AnyClient
    /\ dd_in = <<>>
    /\ dd_out = [done |-> FALSE, value |-> <<>>]
    /\ sd_in \in RectanglesToSplit \X (1..MaxDivisions)
    /\ sd_out = [done |-> FALSE, value |-> <<>>]
    /\ fd_in = <<>>
    /\ fd_out = [done |-> FALSE, once |-> <<>>, twice |-> <<>>]

\* One call of subdivide_rectangle
Subdivide ==
    /\ ~ sd_out.done
    /\ sd_out' = [done |-> TRUE,
                  value |-> subdivide_rectangle(sd_in[1][1], sd_in[1][2],
                                                sd_in[1][3], sd_in[1][4], sd_in[2])]
    /\ UNCHANGED << session, dd_in, dd_out, sd_in, fd_in, fd_out >>

NextSubdivide == Subdivide

SpecSubdivide == InitSubdivide /\ [][NextSubdivide]_vars

\* Stand-alone runs of _flatten_dict(d), with the default parent_key and sep
FlattenKeys == { <<"a">>, <<"b">>, <<"a", "_", "b">> }

Scalars == { IntValue(1), IntValue(2) }

\* Values of the items: ints, mappings of at most one int, lists of ints
FlattenValues ==
    Scalars
    \cup { DictValue(<<>>) }
    \cup { DictValue(<< <<k, v>> >>) : k \in {<<"a">>, <<"b">>}, v \in Scalars }
    \cup { ListValue(<<>>), ListValue(<<1, 2>>) }

\* Mappings of at most n items, with distinct keys
Mappings(n) ==
    { d \in BoundedSeq(FlattenKeys \X FlattenValues, n) :
        \A i, j \in 1..Len(d) : d[i][1] = d[j][1] => i = j }

sep == <<"_">>

InitFlatten ==
    /\ InitObject
    /\ client = AnyClient
    /\ dd_in = <<>>
    /\ dd_out = [done |-> FALSE, value |-> <<>>]
    /\ sd_in = << <<0, 0, 0, 0>>, 0 >>
    /\ sd_out = [done |-> FALSE, value |-> <<>>]
    /\ fd_in \in Mappings(MaxItems)
    /\ fd_out = [done |-> FALSE, once |-> <<>>, twice |-> <<>>]

\* _flatten_dict(d), and _flatten_dict applied to its result
FlattenDict ==
    /\ ~ fd_out.done
    /\ LET once == flatten_dict(fd_in, <<>>, sep)
       IN  fd_out' = [done |-> TRUE, once |-> once,
                      twice |-> flatten_dict(once, <<>>, sep)]
    /\ UNCHANGED << session, dd_in, dd_out, sd_in, sd_out, fd_in >>

NextFlatten == FlattenDict

SpecFlatten == InitFlatten /\ [][NextFlatten]_vars

(* ------------------------------------------------------------------ *)
(* Properties: remove_duplicates_by_id                                *)
(* ------------------------------------------------------------------ *)

IdsOf(s) == { s[k].id : k \in 1..Len(s) }

\* Position of the first and of the last record of s with this id
FirstPos(s, id) == CHOOSE k \in 1..Len(s) :
                       s[k].id = id /\ \A j \in 1..(k - 1) : s[j].id # id

LastPos(s, id) == CHOOSE k \in 1..Len(s) :
                      s[k].id = id /\ \A j \in (k + 1)..Len(s) : s[j].id # id

\* out holds one record per id of in, and no other
OnePerId(in, out) ==
    /\ IdsOf(out) = IdsOf(in)
    /\ Len(out) = Cardinality(IdsOf(in))

Returned == pc = "idle" /\ reused # "new"

\* C2: the list search_places returns holds no two records with the same
\* id, every record of it was returned by a leaf query of the session, and
\* every id a leaf query of the session returned is in it exactly once.
C2_UniqueAndComplete ==
    Returned =>
        /\ \A m, n \in 1..Len(returned) :
              returned[m].id = returned[n].id => m = n
        /\ \A n \in 1..Len(returned) :
              \E k \in 1..Len(answers) : \E j \in 1..Len(answers[k].results) :
                  answers[k].results[j] = returned[n]
        /\ \A k \in 1..Len(answers) : \A j \in 1..Len(answers[k].results) :
              Cardinality({ n \in 1..Len(returned) :
                              returned[n].id = answers[k].results[j].id }) = 1

\* Two leaf queries of a finished session returned the same place
C2_Witness ==
    /\ Returned
    /\ \E k, l \in 1..Len(answers) :
          /\ k < l
          /\ answers[k].results # <<>>
          /\ answers[l].results # <<>>
          /\ IdsOf(answers[k].results) \cap IdsOf(answers[l].results) # {}
    /\ Len(returned) = maxResultCount

Cells(rect) == subdivide_rectangle(rect[1], rect[2], rect[3], rect[4], 2)

Values(rets) == [k \in 1..Len(rets) |-> rets[k].value]

\* The calls a loop has made so far went to its cells, in their order
InCellOrder(f) ==
    /\ Len(f.rets) = f.i - 1
    /\ Len(f.rets) <= Len(f.subs)
    /\ \A k \in 1..Len(f.rets) : f.rets[k].rect = f.subs[k]

TooLarge(radius) == radius > max_allowed_radius_km

\* The call of the top frame has just been made
JustCalled ==
    \/ pc = "request"
    \/ pc = "loop" /\ Top.fn = "radius" /\ Top.i = 1

\* C3: a search_accommodations call on a rectangle whose approximate radius
\* exceeds 49 km issues no query and logs nothing for that rectangle; it
\* loops over the 2 x 2 cells of the rectangle and returns the results of
\* the four calls, concatenated in the order of the cells.
C3_RadiusTrigger ==
    /\ \A d \in 2..Len(stack) :
          /\ (d = Len(stack) /\ JustCalled) =>
                stack[d].approx_radius = approx_radius(stack[d].rect)
          /\ TooLarge(stack[d].approx_radius) =>
              /\ stack[d].fn = "radius"
              /\ stack[d].subs = Cells(stack[d].rect)
              /\ InCellOrder(stack[d])
              /\ stack[d].acc = Flatten(Values(stack[d].rets))
              /\ \A k \in 1..Len(queries) : queries[k].rect # stack[d].rect
              /\ \A k \in 1..Len(search_area) : search_area[k][1] # stack[d].rect
    /\ (ret.fn # "none" /\ TooLarge(ret.approx_radius)) =>
              /\ ret.fn = "radius"
              /\ Len(ret.rets) = 4
              /\ \A k \in 1..4 : ret.rets[k].rect = Cells(ret.rect)[k]
              /\ ret.value = Flatten(Values(ret.rets))
              /\ \A k \in 1..Len(queries) : queries[k].rect # ret.rect
              /\ \A k \in 1..Len(search_area) : search_area[k][1] # ret.rect

\* A radius-subdivided call returned places from two of its cells
C3_Witness ==
    /\ ret.fn = "radius"
    /\ TooLarge(approx_radius(ret.rect))
    /\ ret.rets[2].value # <<>>
    /\ ret.rets[3].value # <<>>
    /\ Len(ret.value) = Len(ret.rets[2].value) + Len(ret.rets[3].value)

RECURSIVE LeavesOf(_)
\* The rectangles the radius trigger alone leads to, in visiting order
LeavesOf(rects) ==
    IF rects = <<>> THEN <<>>
    ELSE (IF TooLarge(approx_radius(Head(rects))) THEN LeavesOf(Cells(Head(rects)))
                                   ELSE << Head(rects) >>)
         \o LeavesOf(Tail(rects))

InitialRectangles ==
    subdivide_rectangle(args[1][1], args[1][2], args[1][3], args[1][4], args[2])

Full(k) == search_area[k][2] = max_results_per_area

\* C4: a leaf whose query returned exactly 20 results is subdivided 2 x 2
\* exactly once, each of the four cells is searched, and the call returns
\* the leaf's own results followed by the cells' results in their order; a
\* leaf with any other count (19, say) is not subdivided and returns its
\* results as they are.
C4_DensityTrigger ==
    /\ \A d \in 2..Len(stack) :
          stack[d].fn = "density" =>
              /\ Len(stack[d].own) = 20
              /\ stack[d].subs = Cells(stack[d].rect)
              /\ InCellOrder(stack[d])
              /\ stack[d].acc = stack[d].own \o Flatten(Values(stack[d].rets))
    /\ ret.fn = "density" =>
              /\ Len(ret.own) = 20
              /\ Len(ret.rets) = 4
              /\ \A k \in 1..4 : ret.rets[k].rect = Cells(ret.rect)[k]
              /\ ret.value = ret.own \o Flatten(Values(ret.rets))
    /\ ret.fn = "leaf" =>
              /\ Len(ret.own) # 20
              /\ ret.rets = <<>>
              /\ ret.value = ret.own
    /\ Returned =>
          Len(search_area) = Len(LeavesOf(InitialRectangles))
                               + 4 * Cardinality({ k \in 1..Len(search_area) : Full(k) })

\* A leaf with 20 results was subdivided and one of its cells, with 19
\* results, was not
C4_Witness ==
    /\ ret.fn = "density"
    /\ \E k \in 1..4 : Len(ret.rets[k].value) = 19
    /\ Len(ret.value) = 39

RECURSIVE Visit(_, _), VisitAll(_, _)
\* The search of rect carried out on the log from entry k on: the index of
\* the first entry after those it accounts for, 0 if the log does not fit
Visit(rect, k) ==
    IF TooLarge(approx_radius(rect)) THEN VisitAll(Cells(rect), k)
    ELSE IF k > Len(search_area) THEN 0
    ELSE IF search_area[k][1] # rect THEN 0
    ELSE IF Full(k) THEN VisitAll(Cells(rect), k + 1)
    ELSE k + 1

VisitAll(rects, k) ==
    IF rects = <<>> \/ k = 0 THEN k
    ELSE VisitAll(Tail(rects), Visit(Head(rects), k))

\* The log is the depth-first, row-major visit of the initial grid: a
\* radius-subdivided rectangle has no entry, a density-subdivided leaf has
\* its entry before those of its cells
LogInVisitOrder == VisitAll(InitialRectangles, 1) = Len(search_area) + 1

Querying == pc \in {"request", "sleep", "next_request", "leaf"}

\* The k-th entry of the log is that of the k-th leaf query of this call
EntryOfQuery(k) ==
    search_area[k] = << queries[k].rect, Len(answers[k].results), FALSE >>

\* C5: the log holds one entry per leaf query issued, in the order the
\* queries were issued, and when search_places returns that order is the
\* depth-first, row-major visit, with no entry for a rectangle that was
\* only subdivided for radius.
C5_LogFidelity ==
    /\ Len(search_area) = Len(answers)
    /\ Len(queries) = Len(search_area) + (IF Querying THEN 1 ELSE 0)
    /\ \A k \in 1..Len(search_area) : EntryOfQuery(k)
    /\ Returned => LogInVisitOrder

\* A finished session with a radius subdivision and a density subdivision
C5_Witness ==
    /\ Returned
    /\ args[2] = 1
    /\ TooLarge(approx_radius(args[1]))
    /\ Len(search_area) = 8
    /\ Full(2)

\* C6 as stated: every search_accommodations call, and so every
\* search_places call, eventually returns, whatever the API client answers:
\* no call is cut short by an exception, after which it never returns.
C6_EveryCallReturns == pc # "raised"

\* C7: a failed request, at the first page or at a continuation page, makes
\* the leaf query return no results without raising: the leaf is logged
\* with count 0, is not subdivided for density, and the search goes on to
\* every remaining rectangle.
C7_FailSoft ==
    /\ error # "RequestException"
    /\ (pc = "leaf" /\ page.failed) => page.results = <<>>
    /\ \A k \in 1..Len(answers) :
          answers[k].failed =>
              /\ answers[k].results = <<>>
              /\ search_area[k] = << queries[k].rect, 0, FALSE >>
              /\ \A d \in 2..Len(stack) :
                    stack[d].fn = "density" => stack[d].rect # queries[k].rect
    /\ (Returned /\ \E k \in 1..Len(answers) : answers[k].failed) => LogInVisitOrder

\* A continuation request failed, and leaves were queried after it
C7_Witness ==
    /\ Returned
    /\ \E k \in 1..Len(answers) :
          /\ answers[k].failed
          /\ answers[k].requests = 2
          /\ k < Len(answers)

Last(s) == s[Len(s)]

NoMore(answer) == answer \in {NoToken, "error"}

\* C8: a leaf query sends at most three requests; the first carries no
\* token; a continuation request is sent only after a response with a
\* token, carries that token and follows the 2-unit delay; the query stops
\* at the first response without a token.
C8_Pagination ==
    /\ Len(reqs) <= 1 + MorePages
    /\ reqs # <<>> => (reqs[1].pageToken = NoToken /\ reqs[1].slept = 0)
    /\ \A k \in 2..Len(reqs) :
          /\ ~ NoMore(reqs[k - 1].answer)
          /\ reqs[k].pageToken = reqs[k - 1].answer
          /\ reqs[k].slept = 2
    /\ pc = "request" => reqs = <<>>
    /\ pc \in {"sleep", "next_request"} =>
          (reqs # <<>> /\ ~ NoMore(Last(reqs).answer) /\ Len(reqs) <= MorePages)
    /\ pc = "leaf" =>
          (reqs # <<>> /\ (NoMore(Last(reqs).answer) \/ Len(reqs) = 1 + MorePages))

\* A query of three requests
C8_Witness ==
    /\ pc = "leaf"
    /\ Len(reqs) = 3
    /\ reqs[2].pageToken = "t1"
    /\ reqs[3].pageToken = "t2"

\* C9: every query carries the radius min(approx_radius * 1.1 * 1000, 49000)
\* metres of its rectangle, approx_radius being half of
\* sqrt(width^2 + height^2), so never more than 49000 m, and its center is
\* the arithmetic midpoint of the rectangle's bounds; every request of the
\* query carries that center and radius.
C9_QueryGeometry ==
    /\ \A k \in 1..Len(queries) :
          LET q == queries[k]
              padded == (q.approx_radius * 11) \div 10
          IN  /\ (k = Len(queries) /\ pc = "request") =>
                    q.approx_radius = approx_radius(q.rect)
              /\ q.radius = (IF padded < 49000 THEN padded ELSE 49000)
              /\ q.radius <= 49000
              /\ q.lat = (q.rect[1] + q.rect[3]) \div 2
              /\ q.lon = (q.rect[2] + q.rect[4]) \div 2
    /\ \A k \in 1..Len(reqs) :
          /\ reqs[k].lat = Last(queries).lat
          /\ reqs[k].lon = Last(queries).lon
          /\ reqs[k].radius = Last(queries).radius

\* A request with a radius below the clamp, in a session whose first query
\* had its radius clamped
C9_Witness ==
    /\ Len(queries) >= 2
    /\ (queries[1].approx_radius * 11) \div 10 > 49000
    /\ queries[1].radius = 49000
    /\ reqs # <<>>
    /\ reqs[1].radius = (Last(queries).approx_radius * 11) \div 10
    /\ reqs[1].radius < 49000

\* C10: in a search_places call made on an object that was used before,
\* the log holds exactly the entries of the leaf queries of this call.
C10_LogOfThisCall ==
    reused = "again" =>
        /\ Len(search_area) <= Len(queries)
        /\ \A k \in 1..Len(search_area) : search_area[k][1] = queries[k].rect
        /\ (pc = "loop" /\ queries = <<>>) => search_area = <<>>

\* A second call has returned with its own entries in the log
C10_Witness ==
    /\ reused = "again"
    /\ Returned
    /\ search_area # <<>>

(* ------------------------------------------------------------------ *)
(* Properties: two runs on a deterministic client                     *)
(* ------------------------------------------------------------------ *)

\* C11: with an API client whose response depends only on the request
\* (center, radius, page token), a second search_places call with the
\* arguments of the first, on the same object, builds the same log entry by
\* entry, does not raise, and returns the same deduplicated list in the same
\* order with the same log.
C11_Determinism ==
    (client.deterministic /\ first.done /\ args = first.args) =>
        /\ pc # "raised"
        /\ Len(search_area) <= Len(first.rectangles)
        /\ \A k \in 1..Len(search_area) : search_area[k] = first.rectangles[k]
        /\ Returned =>
              /\ returned = first.returned
              /\ search_area = first.rectangles

\* A second run has returned, after a density subdivision, a failed query
\* or a paginated query, with places
C11_Witness ==
    /\ client.deterministic
    /\ first.done
    /\ reused = "again"
    /\ Returned
    /\ returned # <<>>
    /\ Len(search_area) >= 5
    /\ Cardinality(client.table) > Len(search_area)

(* ------------------------------------------------------------------ *)
(* Properties: subdivide_rectangle                                    *)
(* ------------------------------------------------------------------ *)

Abs(x) == IF x < 0 THEN 0 - x ELSE x

\* Two rectangles have no interior point in common
Apart(c, d) == c[3] <= d[1] \/ d[3] <= c[1] \/ c[4] <= d[2] \/ d[4] <= c[2]

\* cells is an n x n grid over rect, latitude band outer and longitude band
\* inner: each cell starts where its southern and its western neighbour
\* end, the first band and column start at the south-west corner of rect,
\* and the last band and column end within slack of its north-east corner
Tiling(rect, n, cells, slack) ==
    /\ Len(cells) = n * n
    /\ \A k \in 1..Len(cells) :
          LET i == (k - 1) \div n
              j == (k - 1) % n
              c == cells[k]
          IN  /\ c[1] < c[3]
              /\ c[2] < c[4]
              /\ IF i = 0 THEN c[1] = rect[1]
                          ELSE /\ c[1] = cells[k - n][3]
                               /\ c[2] = cells[k - n][2]
                               /\ c[4] = cells[k - n][4]
              /\ IF j = 0 THEN c[2] = rect[2]
                          ELSE /\ c[2] = cells[k - 1][4]
                               /\ c[1] = cells[k - 1][1]
                               /\ c[3] = cells[k - 1][3]
              /\ i = n - 1 => Abs(rect[3] - c[3]) <= slack
              /\ j = n - 1 => Abs(rect[4] - c[4]) <= slack
    /\ \A k, l \in 1..Len(cells) : k # l => Apart(cells[k], cells[l])

MissingId ==
    \E k \in 1..Len(answers) : \E j \in 1..Len(answers[k].results) :
        ~ HasId(answers[k].results[j])

\* The for loop of search_places has ended
LoopEnded == pc = "loop" /\ Len(stack) = 1 /\ Top.i > Len(Top.subs)

\* C13: if a record gathered by the leaf queries of a search_places call
\* has no id, the call returns no result and exports nothing; at the end of
\* its for loop, with every leaf query issued and logged, its next step is
\* the KeyError of the deduplication; and a KeyError is raised in no other
\* place and for no other reason.
C13_MissingId ==
    /\ [](MissingId => (pc # "idle" /\ returned = <<>> /\ exported = NoExport))
    /\ [](error = "KeyError" =>
            /\ MissingId
            /\ pc = "raised"
            /\ Len(stack) = 1
            /\ Top.i > Len(Top.subs)
            /\ Len(queries) = Len(search_area)
            /\ Len(answers) = Len(search_area)
            /\ LogInVisitOrder)
    /\ [][(LoopEnded /\ MissingId) => (pc' = "raised" /\ error' = "KeyError")]_vars

\* The deduplication raised after a search with a density subdivision, in
\* which the record without id was not the last one gathered
C13_Witness ==
    /\ error = "KeyError"
    /\ Len(search_area) >= 5
    /\ Len(stack[1].acc) > maxResultCount
    /\ HasId(Last(stack[1].acc))

(* ------------------------------------------------------------------ *)
(* Properties: _flatten_dict                                          *)
(* ------------------------------------------------------------------ *)

\* Two dicts are equal: the same items, in any order
SameMapping(d, e) ==
    { d[k] : k \in 1..Len(d) } = { e[k] : k \in 1..Len(e) }

KeysOf(d) == { d[k][1] : k \in 1..Len(d) }

IsScalar(v) == v.t \in {"int", "str"}

\* Scalar values only
IsFlat(d) == \A k \in 1..Len(d) : IsScalar(d[k][2])

\* Scalar values and exactly one mapping, itself flat
OneNested(d) ==
    /\ Cardinality({ k \in 1..Len(d) : d[k][2].t = "dict" }) = 1
    /\ \A k \in 1..Len(d) :
          \/ IsScalar(d[k][2])
          \/ d[k][2].t = "dict" /\ IsFlat(d[k][2].d)

\* Values of d with a key path of their own: the scalars, and the items of
\* the nested mappings
PathsOf(d) ==
    UNION { IF d[k][2].t = "dict"
            THEN { << d[k][1], d[k][2].d[j][1] >> : j \in 1..Len(d[k][2].d) }
            ELSE { << d[k][1] >> } : k \in 1..Len(d) }

JoinedKey(path) == IF Len(path) = 1 THEN path[1] ELSE path[1] \o sep \o path[2]

\* C14 as stated: flattening a flat mapping returns an equal mapping, and
\* flattening is idempotent; flattening a mapping with one nested mapping
\* gives the separator-joined keys, every value of the input keeps a key of
\* its own, and no other mapping with one nested mapping flattens to the
\* same result.
C14_FlattenLossless ==
    fd_out.done =>
        /\ IsFlat(fd_in) => SameMapping(fd_out.once, fd_in)
        /\ SameMapping(fd_out.twice, fd_out.once)
        /\ OneNested(fd_in) =>
              /\ KeysOf(fd_out.once) = { JoinedKey(p) : p \in PathsOf(fd_in) }
              /\ Len(fd_out.once) = Cardinality(PathsOf(fd_in))
              /\ \A e \in Mappings(MaxItems) :
                    (OneNested(e) /\ ~ SameMapping(e, fd_in)) =>
                        ~ SameMapping(flatten_dict(e, <<>>, sep), fd_out.once)

(* ------------------------------------------------------------------ *)
(* Properties: results and log                                        *)
(* ------------------------------------------------------------------ *)

\* The results of the leaf queries of the log entries a + 1 .. b,
\* concatenated in log order
ResultsOf(a, b) == Flatten([k \in 1..(b - a) |-> answers[a + k].results])

RECURSIVE SumOfCounts(_)
\* The sum of the result counts of the entries of a log
SumOfCounts(log) == IF log = <<>> THEN 0 ELSE Head(log)[2] + SumOfCounts(Tail(log))

\* The length of the log when the call of frame d ends its latest step: at
\* the call it is waiting for, or now
LoggedBy(d) == IF d < Len(stack) THEN stack[d + 1].base ELSE Len(search_area)

\* C15: the list a search_accommodations call returns is the concatenation,
\* in log order, of the results of the leaf queries whose entries the call
\* appended to the log; the list a loop has built so far is that of the
\* entries appended since its call; and at the end of the for loop of
\* search_places the length of all_results is the sum of the result counts
\* of all log entries.
C15_ResultsInLogOrder ==
    /\ ret.fn # "none" =>
          /\ ret.base <= ret.upto
          /\ ret.upto <= Len(search_area)
          /\ ret.value = ResultsOf(ret.base, ret.upto)
    /\ \A d \in 1..Len(stack) :
          /\ stack[d].base <= LoggedBy(d)
          /\ stack[d].fn # "leaf" => stack[d].acc = ResultsOf(stack[d].base, LoggedBy(d))
    /\ LoopEnded =>
          /\ stack[1].base = 0
          /\ Len(stack[1].acc) = SumOfCounts(search_area)

\* The for loop of search_places has ended with 39 results from a leaf of
\* 20 and one of its cells, which was not the last rectangle searched
C15_Witness ==
    /\ LoopEnded
    /\ Len(search_area) >= 5
    /\ Len(stack[1].acc) = 39
    /\ ret.fn # "leaf"
    /\ Len(ret.value) = 39
    /\ Last(search_area)[2] = 0

\* The entry after entry k of the log, if any, is that of the first cell of
\* the rectangle of entry k
CellFollows(k) ==
    k < Len(search_area) => search_area[k + 1][1] = Cells(search_area[k][1])[1]

\* Rectangle c is a part of rectangle r
Inside(c, r) ==
    /\ r[1] <= c[1] /\ c[3] <= r[3]
    /\ r[2] <= c[2] /\ c[4] <= r[4]
    /\ c # r

\* No entry after entry k of the log is that of a cell of its rectangle, or
\* of any part of it
NoCellFollows(k) ==
    \A l \in (k + 1)..Len(search_area) :
        ~ Inside(search_area[l][1], search_area[k][1])

\* C16: a leaf is subdivided for density if and only if its query, all
\* pages together, returned exactly 20 results: a leaf with any other
\* count, 21 to 60 over two or three pages included, gets no density frame,
\* none of its cells is ever queried, and its call returns the results as
\* they are.
C16_OnlyCountTwenty ==
    /\ \A k \in 1..Len(answers) :
          IF Len(answers[k].results) = max_results_per_area
          THEN CellFollows(k)
          ELSE /\ NoCellFollows(k)
               /\ \A d \in 2..Len(stack) :
                     stack[d].fn = "density" => stack[d].base # k - 1
    /\ \A d \in 2..Len(stack) :
          stack[d].fn = "density" =>
              /\ stack[d].base < Len(answers)
              /\ Len(answers[stack[d].base + 1].results) = max_results_per_area
    /\ ret.fn = "leaf" =>
          /\ ret.upto = ret.base + 1
          /\ Len(answers[ret.upto].results) # max_results_per_area
          /\ ret.value = answers[ret.upto].results

\* A leaf whose query returned 40 results over two pages has returned them,
\* and the search has gone on to the next rectangle of the grid
C16_Witness ==
    /\ ret.fn = "leaf"
    /\ args[2] = 2
    /\ \E k \in 1..Len(answers) :
          /\ Len(answers[k].results) = 2 * maxResultCount
          /\ search_area[k][2] = 2 * maxResultCount
          /\ k < Len(search_area)
          /\ search_area[k + 1][1] = InitialRectangles[2]

\* C17: within a search_places call no step changes or removes an entry of
\* the log, which only grows at its end, and every entry carries the flag
\* False, that of a leaf subdivided for density included.
C17_LogAppendOnly ==
    /\ [](\A k \in 1..Len(search_area) : search_area[k][3] = FALSE)
    /\ [][pc # "idle" =>
            /\ Len(search_area') >= Len(search_area)
            /\ Len(search_area') <= Len(search_area) + 1
            /\ SubSeq(search_area', 1, Len(search_area)) = search_area]_vars

\* The cells of a leaf subdivided for density are being logged after the
\* leaf's entry
C17_Witness ==
    /\ Len(stack) >= 2
    /\ Top.fn = "density"
    /\ Len(search_area) >= Top.base + 3
    /\ search_area[Top.base + 1] = << Top.rect, max_results_per_area, FALSE >>

(* ------------------------------------------------------------------ *)
(* Properties: termination                                            *)
(* ------------------------------------------------------------------ *)

\* A leaf query of the session has returned exactly 20 results
SomeFull ==
    \/ \E k \in 1..Len(answers) : Len(answers[k].results) = max_results_per_area
    \/ pc = "leaf" /\ Len(page.results) = max_results_per_area

\* The rectangles of the queries issued so far
Queried == [k \in 1..Len(queries) |-> queries[k].rect]

\* All search_accommodations calls of the session have returned
AllReturned == pc = "idle" \/ error = "KeyError" \/ LoopEnded

\* Where the search stands: the loop indices along the call stack, then
\* the step of the running leaf query
Path == [d \in 1..Len(stack) |-> stack[d].i]

Rank ==
    CASE pc = "request"      -> 1
      [] pc = "sleep"        -> 2 + 2 * page.fetched
      [] pc = "next_request" -> 3 + 2 * page.fetched
      [] pc = "leaf"         -> 4 + 2 * MorePages
      [] pc = "raised"       -> 5 + 2 * MorePages
      [] OTHER               -> 0

\* p comes before q in the depth-first order of the loop indices
PathBefore(p, q) ==
    \/ Len(p) < Len(q) /\ SubSeq(q, 1, Len(p)) = p
    \/ \E d \in 1..Min(Len(p), Len(q)) :
          /\ p[d] < q[d]
          /\ \A e \in 1..(d - 1) : p[e] = q[e]

\* The step moves the search forward
Advances == PathBefore(Path, Path') \/ (Path' = Path /\ Rank < Rank')

\* The step to take next can be taken.  (A call of search_accommodations
\* takes the radius branch or the else branch, and the end of search_places
\* raises KeyError or returns: these guards are complementary.)
CanStep ==
    /\ pc = "request" => ENABLED FirstRequest
    /\ pc = "sleep" => ENABLED Sleep
    /\ pc = "next_request" => ENABLED NextRequest
    /\ pc = "leaf" => ENABLED (ReturnLeaf \/ SubdivideForDensity)
    /\ (pc = "loop" /\ ~ CanCall /\ Len(stack) > 1) => ENABLED ReturnSubResults

====
